---- MODULE Spec2Model ----
(***************************************************************************)
(* Model of Paga_Recebe.py: the operation unification pipeline             *)
(* (processar_dados), the numeric coercion br_to_float and the handler of  *)
(* the "Processar" button.                                                 *)
(*                                                                         *)
(* Cell values are tagged records: Null (NaN / None / pd.NA / NaT), Num (a *)
(* number, kept as an exact normalised fraction n/d), Str (a text, a       *)
(* sequence of one-character strings), Ts (a timestamp: day number and     *)
(* time of day), Date (a calendar date) and Inf (a float infinity).        *)
(* Floating point arithmetic is modelled exactly (no rounding error).      *)
(***************************************************************************)
EXTENDS Integers, Sequences, FiniteSets, TLC

VARIABLES
  \* ---- processar_dados -------------------------------------------------
  pc,             \* position inside processar_dados
  df_assessores,  \* input table: [cols, rows]
  df_ops,         \* input table: [cols, rows]
  df_dash,        \* input table: [cols, rows] (rows normalised at 228-232)
  df_grouped,     \* rows after groupby(...).agg(...).reset_index()
  df_merged,      \* rows of the working table df_merged
  df_dash_min,    \* deduplicated Dashboard rows
  resultado,      \* the returned table (NoTable until the return)
  erro,           \* the exception raised by processar_dados (NoError if none)
  \* ---- br_to_float -----------------------------------------------------
  cpc,            \* "call" before the coercion, "returned" after it
  cx,             \* the argument x
  cout,           \* [local, global]: what the two br_to_float return
  \* ---- Processar button handler -----------------------------------------
  uploads,        \* widget -> "none" | "ok" (loads) | "bad" (read error)
  pipeline_ok,    \* whether processar_dados succeeds on the uploaded tables
  tela            \* what the last script run showed

pipeVars == <<pc, df_assessores, df_ops, df_dash, df_grouped, df_merged,
              df_dash_min, resultado, erro>>
coerceVars == <<cpc, cx, cout>>
uiVars == <<uploads, pipeline_ok, tela>>
vars == <<pipeVars, coerceVars, uiVars>>

-----------------------------------------------------------------------------
(* Bounds of the model *)

\* longest generated text handed to br_to_float
MaxLen == 3
\* most rows of the Operations table
MaxOps == 4
\* most rows of the Advisors table
MaxAdv == 3
\* most rows of the Dashboard table
MaxDash == 2
\* most rows of the Operations table where the other tables vary
MaxLegs == 2
\* most required columns a table lacks
MaxMissing == 1

-----------------------------------------------------------------------------
(* Values *)

Null == [t |-> "null"]
Str(s) == [t |-> "str", s |-> s]
Ts(d, h) == [t |-> "ts", date |-> d, time |-> h]
Date(d) == [t |-> "date", date |-> d]
Inf(sg) == [t |-> "inf", sign |-> sg]

IsNull(x) == x.t = "null"
IsNum(x) == x.t = "num"
IsStr(x) == x.t = "str"

Abs(n) == IF n < 0 THEN -n ELSE n

RECURSIVE GCD(_, _)
GCD(a, b) == IF b = 0 THEN a ELSE GCD(b, a % b)

\* the number n/d (d # 0), normalised: d > 0 and gcd(n, d) = 1
Num(n, d) ==
  LET g == GCD(Abs(n), Abs(d))
      s == IF d < 0 THEN -1 ELSE 1
  IN [t |-> "num", n |-> (s * n) \div g, d |-> (s * d) \div g]

Int2Num(n) == Num(n, 1)

NumLess(a, b) == a.n * b.d < b.n * a.d
NumAdd(a, b) == Num(a.n * b.d + b.n * a.d, a.d * b.d)
NumSub(a, b) == Num(a.n * b.d - b.n * a.d, a.d * b.d)
NumMul(a, b) == Num(a.n * b.n, a.d * b.d)

\* pd.isna / pd.notnull: NaN, None, pd.NA and NaT are null; inf is not
pd_isna(x) == IsNull(x)
pd_notnull(x) == ~IsNull(x)

-----------------------------------------------------------------------------
(* Texts: sequences of one-character strings *)

Digits == {"0", "1", "2", "3", "4", "5", "6", "7", "8", "9"}

DigitVal(c) ==
  CASE c = "0" -> 0 [] c = "1" -> 1 [] c = "2" -> 2 [] c = "3" -> 3
    [] c = "4" -> 4 [] c = "5" -> 5 [] c = "6" -> 6 [] c = "7" -> 7
    [] c = "8" -> 8 [] c = "9" -> 9

DigitChar(n) ==
  CASE n = 0 -> "0" [] n = 1 -> "1" [] n = 2 -> "2" [] n = 3 -> "3"
    [] n = 4 -> "4" [] n = 5 -> "5" [] n = 6 -> "6" [] n = 7 -> "7"
    [] n = 8 -> "8" [] n = 9 -> "9"

\* str.strip(): drops leading and trailing whitespace
RECURSIVE LStrip(_)
LStrip(s) == IF s # <<>> /\ Head(s) = " " THEN LStrip(Tail(s)) ELSE s

RECURSIVE RStrip(_)
RStrip(s) ==
  IF s # <<>> /\ s[Len(s)] = " " THEN RStrip(SubSeq(s, 1, Len(s) - 1)) ELSE s

Strip(s) == RStrip(LStrip(s))

\* str.replace(c, r) for a one-character c and a text r
RECURSIVE Replace(_, _, _)
Replace(s, c, r) ==
  IF s = <<>> THEN <<>>
  ELSE (IF Head(s) = c THEN r ELSE <<Head(s)>>) \o Replace(Tail(s), c, r)

Contains(s, c) == \E i \in 1..Len(s) : s[i] = c

RECURSIVE Pow10(_)
Pow10(k) == IF k = 0 THEN 1 ELSE 10 * Pow10(k - 1)

RECURSIVE DigitsVal(_)
DigitsVal(s) ==
  IF s = <<>> THEN 0 ELSE 10 * DigitsVal(SubSeq(s, 1, Len(s) - 1)) + DigitVal(s[Len(s)])

\* float(s) of Python for texts without exponent, "inf", "nan" or "_":
\* surrounding whitespace is ignored, then an optional sign, then digits with
\* at most one "." and at least one digit.  Null stands for ValueError.
ParseFloat(s0) ==
  LET s == Strip(s0)
      signed == s # <<>> /\ Head(s) \in {"-", "+"}
      body == IF signed THEN Tail(s) ELSE s
      dots == {i \in 1..Len(body) : body[i] = "."}
      wellFormed == /\ \A i \in 1..Len(body) : body[i] \in Digits \cup {"."}
                    /\ Cardinality(dots) <= 1
                    /\ \E i \in 1..Len(body) : body[i] \in Digits
      p == IF dots = {} THEN Len(body) + 1 ELSE CHOOSE i \in dots : TRUE
      all == SubSeq(body, 1, p - 1) \o SubSeq(body, p + 1, Len(body))
      frac == IF dots = {} THEN 0 ELSE Len(body) - p
      mag == DigitsVal(all)
  IN IF ~wellFormed THEN Null
     ELSE Num(IF signed /\ Head(s) = "-" THEN -mag ELSE mag, Pow10(frac))

-----------------------------------------------------------------------------
(* br_to_float *)

\* processar_dados.br_to_float (the one the pipeline calls)
br_to_float(x) ==
  IF pd_isna(x) THEN Null
  ELSE IF IsNum(x) THEN x
  ELSE LET s == Strip(x.s)
       IN IF s = <<>> THEN Null
          ELSE ParseFloat(Replace(Replace(s, ".", <<>>), ",", <<".">>))

\* the module-level br_to_float (shadowed inside processar_dados)
br_to_float_global(x) ==
  IF pd_isna(x) THEN Null
  ELSE IF IsNum(x) THEN x
  ELSE LET s == Strip(x.s)
       IN IF s = <<>> THEN Null
          ELSE ParseFloat(Replace(Replace(s, ".", <<>>), ",", <<".">>))

-----------------------------------------------------------------------------
(* Specification of the coercion: one call of br_to_float on one argument *)

CoerceAlphabet == {"1", "5", ",", ".", "a", " ", "-"}

Texts(alphabet, n) == UNION {[1..k -> alphabet] : k \in 0..n}

CoerceExamples ==
  { <<"1", ".", "2", "3", "4", ",", "5", "6">>,
    <<"1", ",", "2", "3", "4", ".", "5", "6">>,
    <<"a", "b", "c">>,
    <<"2", "0", ",", "6", "7">>,
    <<"2", "0", ".", "6", "7">> }

CoerceInputs ==
  {Str(s) : s \in Texts(CoerceAlphabet, MaxLen) \cup CoerceExamples}
    \cup {Null, Int2Num(0), Int2Num(-5), Num(2067, 100)}

NoOutput == [local |-> Null, global |-> Null]

CoerceIdle == cpc = "idle" /\ cx = Null /\ cout = NoOutput

InitCoerce ==
  /\ cpc = "call"
  /\ cx \in CoerceInputs
  /\ cout = NoOutput

Coerce ==
  /\ UNCHANGED <<pipeVars, uiVars>>
  /\ cpc = "call"
  /\ cpc' = "returned"
  /\ cout' = [local |-> br_to_float(cx), global |-> br_to_float_global(cx)]
  /\ UNCHANGED cx

-----------------------------------------------------------------------------
(* processar_dados: schema validation (lines 127-159) *)
(* Column names are written without accents. *)

cols_assessores_obrig == {"Conta", "Nome", "Assessor"}

cols_ops_obrig ==
  { "Data_Operacao", "Conta_Cliente", "Tipo Operacao", "Tipo Opcao", "Ativo",
    "Preco Exercicio", "Quantidade", "Barreira Knock In", "Barreira Knock Out",
    "Direcao da Barreira", "Rebate", "Fixing", "KnockInAtingido", "Estrutura",
    "Ref", "Bid(+)/Offer(-)", "Codigo do Produto" }

cols_dash_obrig ==
  {"Conta", "Ativo", "Data de Fixing", "Preco de Abertura", "Preco de Mercado"}

NoError == [type |-> "none"]
NoTable == [t |-> "none"]
Table(rows) == [t |-> "table", rows |-> rows]

faltando_ass(a) == cols_assessores_obrig \ a.cols
faltando_ops(o) == cols_ops_obrig \ o.cols
faltando_dash(d) == cols_dash_obrig \ d.cols

SchemaError(tabela, faltando) ==
  [type |-> "ValueError", tabela |-> tabela, faltando |-> faltando]

\* mutant: the Dashboard is not checked
ValidationErrorSemDash(a, o, d) ==
  IF faltando_ass(a) # {} THEN SchemaError("assessores", faltando_ass(a))
  ELSE IF faltando_ops(o) # {} THEN SchemaError("ops", faltando_ops(o))
  ELSE NoError

\* the three checks, in the order of the code: the first that fails raises
ValidationError(a, o, d) ==
  IF faltando_ass(a) # {} THEN SchemaError("assessores", faltando_ass(a))
  ELSE IF faltando_ops(o) # {} THEN SchemaError("ops", faltando_ops(o))
  ELSE IF faltando_dash(d) # {} THEN SchemaError("dash", faltando_dash(d))
  ELSE NoError

-----------------------------------------------------------------------------
(* processar_dados: the Leg Aggregator (lines 165-197) *)

group_cols(r) ==
  <<r.Data_Operacao, r.Conta_Cliente, r.Ativo, r.Fixing, r.Estrutura, r.Ref,
    r.Codigo_do_Produto>>

CharCode(c) ==
  CASE c = " " -> 32 [] c = "," -> 44 [] c = "-" -> 45 [] c = "." -> 46
    [] c \in Digits -> 48 + DigitVal(c)
    [] c = "A" -> 65 [] c = "B" -> 66 [] c = "N" -> 78 [] c = "X" -> 88
    [] c = "a" -> 97 [] c = "b" -> 98 [] c = "c" -> 99 [] c = "n" -> 110
    [] c = "x" -> 120

RECURSIVE TextLess(_, _)
TextLess(s, u) ==
  IF u = <<>> THEN FALSE
  ELSE IF s = <<>> THEN TRUE
  ELSE IF Head(s) = Head(u) THEN TextLess(Tail(s), Tail(u))
  ELSE CharCode(Head(s)) < CharCode(Head(u))

\* the order groupby(sort=True, dropna=False) gives the values of one key
\* column: ascending, null last
ValLess(a, b) ==
  IF IsNull(a) THEN FALSE
  ELSE IF IsNull(b) THEN TRUE
  ELSE IF IsNum(a) THEN NumLess(a, b)
  ELSE IF IsStr(a) THEN TextLess(a.s, b.s)
  ELSE a.date < b.date \/ (a.date = b.date /\ a.time < b.time)

RECURSIVE KeyLessFrom(_, _, _)
KeyLessFrom(k1, k2, i) ==
  IF i > Len(k1) THEN FALSE
  ELSE IF k1[i] = k2[i] THEN KeyLessFrom(k1, k2, i + 1)
  ELSE ValLess(k1[i], k2[i])

KeyLess(k1, k2) == KeyLessFrom(k1, k2, 1)

\* the group keys in the order groupby (sort=True by default) emits them
RECURSIVE SortKeys(_)
SortKeys(K) ==
  IF K = {} THEN <<>>
  ELSE LET m == CHOOSE k \in K : \A o \in K : ~KeyLess(o, k)
       IN <<m>> \o SortKeys(K \ {m})

\* the non-null values of one column of a group, in the original row order
NonNull(legs, Col(_)) ==
  LET keep(r) == ~IsNull(Col(r))
      kept == SelectSeq(legs, keep)
  IN [i \in 1..Len(kept) |-> Col(kept[i])]

primeira_nao_nula(serie) == IF serie = <<>> THEN Null ELSE serie[1]

RECURSIVE AggMinFrom(_, _)
AggMinFrom(vs, i) ==
  IF i = Len(vs) THEN vs[i]
  ELSE LET rest == AggMinFrom(vs, i + 1)
       IN IF NumLess(rest, vs[i]) THEN rest ELSE vs[i]

\* "min" / "max" of a numeric column: nulls skipped, null if all are null
AggMin(vs) == IF vs = <<>> THEN Null ELSE AggMinFrom(vs, 1)

RECURSIVE AggMaxFrom(_, _)
AggMaxFrom(vs, i) ==
  IF i = Len(vs) THEN vs[i]
  ELSE LET rest == AggMaxFrom(vs, i + 1)
       IN IF NumLess(vs[i], rest) THEN rest ELSE vs[i]

AggMax(vs) == IF vs = <<>> THEN Null ELSE AggMaxFrom(vs, 1)

TypeErrorValue == [t |-> "TypeError"]

\* Python's a + b for the values a column can hold
PyAdd(a, b) ==
  IF a.t = "TypeError" THEN a
  ELSE IF IsNum(a) /\ IsNum(b) THEN NumAdd(a, b)
  ELSE IF IsStr(a) /\ IsStr(b) THEN Str(a.s \o b.s)
  ELSE TypeErrorValue

RECURSIVE AggSumFrom(_, _, _)
AggSumFrom(vs, i, acc) ==
  IF i > Len(vs) THEN acc ELSE AggSumFrom(vs, i + 1, PyAdd(acc, vs[i]))

\* "sum": nulls skipped, 0 when nothing is left; the values are added with +,
\* which concatenates texts and raises TypeError for a text and a number
AggSum(vs) == IF vs = <<>> THEN Int2Num(0) ELSE AggSumFrom(vs, 2, vs[1])

ColPrecoExercicio(r) == r.Preco_Exercicio
ColQuantidade(r) == r.Quantidade
ColRebate(r) == r.Rebate
ColBid(r) == r.Bid_Offer

\* one unified row: the key columns and the reduced columns of agg_dict
AggRow(rows, k) ==
  LET inGroup(r) == group_cols(r) = k
      legs == SelectSeq(rows, inGroup)
  IN [ Data_Operacao |-> k[1], Conta_Cliente |-> k[2], Ativo |-> k[3],
       Fixing |-> k[4], Estrutura |-> k[5], Ref |-> k[6],
       Codigo_do_Produto |-> k[7],
       Preco_Exercicio |-> AggMin(NonNull(legs, ColPrecoExercicio)),
       Quantidade |-> AggMax(NonNull(legs, ColQuantidade)),
       Rebate |-> primeira_nao_nula(NonNull(legs, ColRebate)),
       Bid_Offer |-> AggSum(NonNull(legs, ColBid)) ]

\* mutant: groupby without dropna=False drops the keys that hold a null
GroupKeysDropna(rows) ==
  { k \in {group_cols(rows[i]) : i \in 1..Len(rows)} :
      \A c \in 1..Len(k) : ~IsNull(k[c]) }

GroupKeys(rows) == {group_cols(rows[i]) : i \in 1..Len(rows)}

\* mutant: groupby(sort=False) emits the keys in their order of first appearance
RECURSIVE KeysInOrderFrom(_, _)
KeysInOrderFrom(rows, i) ==
  IF i > Len(rows) THEN <<>>
  ELSE (IF \E j \in 1..(i - 1) : group_cols(rows[j]) = group_cols(rows[i])
        THEN <<>> ELSE <<group_cols(rows[i])>>) \o KeysInOrderFrom(rows, i + 1)

GroupAggSemSort(rows) ==
  LET ks == KeysInOrderFrom(rows, 1)
  IN [i \in 1..Len(ks) |-> AggRow(rows, ks[i])]

\* df_ops.groupby(group_cols, dropna=False).agg(agg_dict).reset_index()
GroupAgg(rows) ==
  LET ks == SortKeys(GroupKeys(rows))
  IN [i \in 1..Len(ks) |-> AggRow(rows, ks[i])]

-----------------------------------------------------------------------------
(* processar_dados: the join with the Advisors table (lines 199-212) *)

\* equality of merge keys: pandas matches a null key with a null key
KeyEq(a, b) == a = b

WithAssessor(r, nome, assessor, conta) ==
  [ Data_Operacao |-> r.Data_Operacao, Conta_Cliente |-> r.Conta_Cliente,
    Ativo |-> r.Ativo, Fixing |-> r.Fixing, Estrutura |-> r.Estrutura,
    Ref |-> r.Ref, Cod_Produto |-> r.Codigo_do_Produto,
    Preco_Exercicio |-> r.Preco_Exercicio, Quantidade |-> r.Quantidade,
    Rebate |-> r.Rebate, Paga_Recebe |-> r.Bid_Offer,
    Conta |-> conta, Nome_Cliente |-> nome, Assessor |-> assessor ]

\* the rows a left row yields: one per matching right row, in the order of
\* the right table, or a single row with nulls when nothing matches
MergeAssessoresRow(r, ass) ==
  LET match(a) == KeyEq(r.Conta_Cliente, a.Conta)
      ms == SelectSeq(ass, match)
  IN IF ms = <<>> THEN <<WithAssessor(r, Null, Null, Null)>>
     ELSE [i \in 1..Len(ms) |->
             WithAssessor(r, ms[i].Nome, ms[i].Assessor, ms[i].Conta)]

RECURSIVE MergeAssessoresFrom(_, _, _)
MergeAssessoresFrom(left, ass, i) ==
  IF i > Len(left) THEN <<>>
  ELSE MergeAssessoresRow(left[i], ass) \o MergeAssessoresFrom(left, ass, i + 1)

\* df_grouped.merge(df_assessores[...], left_on="Conta_Cliente",
\* right_on="Conta", how="left") followed by the rename
MergeAssessores(left, ass) == MergeAssessoresFrom(left, ass, 1)

-----------------------------------------------------------------------------
(* processar_dados: normalisation (lines 214-232) *)

LowerCase == <<"a", "b", "c", "n", "x">>
UpperCase == <<"A", "B", "C", "N", "X">>

\* str.upper() of one character
UpperChar(c) ==
  IF \E i \in 1..Len(LowerCase) : LowerCase[i] = c
  THEN UpperCase[CHOOSE i \in 1..Len(LowerCase) : LowerCase[i] = c]
  ELSE c

\* astype(str): a null becomes the text "nan"
astype_str(x) == IF IsNull(x) THEN <<"n", "a", "n">> ELSE x.s

\* .astype(str).str.strip().str.upper()
NormAtivo(x) ==
  LET s == Strip(astype_str(x))
  IN Str([i \in 1..Len(s) |-> UpperChar(s[i])])

\* pd.to_numeric(..., errors="coerce")
to_numeric(x) ==
  IF IsNull(x) THEN Null
  ELSE IF IsNum(x) THEN x
  ELSE ParseFloat(x.s)

\* norm_date: a timestamp loses its time of day; a null or a text that is
\* no date (the texts of the model hold no digit) gives NaT
norm_date(x) == IF x.t = "ts" THEN Date(x.date) ELSE Null

NormOpsRow(r) ==
  [ Data_Operacao |-> r.Data_Operacao,
    Conta_Cliente |-> to_numeric(r.Conta_Cliente),
    Ativo |-> NormAtivo(r.Ativo), Fixing |-> r.Fixing,
    Fixing_norm |-> norm_date(r.Fixing), Estrutura |-> r.Estrutura,
    Ref |-> br_to_float(r.Ref), Cod_Produto |-> r.Cod_Produto,
    Preco_Exercicio |-> br_to_float(r.Preco_Exercicio),
    Quantidade |-> br_to_float(r.Quantidade), Rebate |-> r.Rebate,
    Paga_Recebe |-> br_to_float(r.Paga_Recebe),
    Conta |-> r.Conta, Nome_Cliente |-> r.Nome_Cliente,
    Assessor |-> r.Assessor ]

NormDashRow(r) ==
  [ Conta |-> to_numeric(r.Conta), Ativo |-> NormAtivo(r.Ativo),
    Data_de_Fixing |-> r.Data_de_Fixing,
    Preco_de_Abertura |-> r.Preco_de_Abertura,
    Preco_de_Mercado |-> r.Preco_de_Mercado,
    Fixing_norm |-> norm_date(r.Data_de_Fixing),
    Preco_Abertura |-> br_to_float(r.Preco_de_Abertura),
    Preco_Mercado |-> br_to_float(r.Preco_de_Mercado) ]

MapRows(rows, F(_)) == [i \in 1..Len(rows) |-> F(rows[i])]

-----------------------------------------------------------------------------
(* processar_dados: the join with the Dashboard (lines 234-247) *)

dash_keys(r) == <<r.Conta, r.Ativo, r.Fixing_norm>>

\* .dropna(subset=["Conta", "Ativo", "Fixing_norm"])
DropNaKeys(rows) ==
  LET keep(r) == \A i \in 1..3 : ~IsNull(dash_keys(r)[i])
  IN SelectSeq(rows, keep)

\* .drop_duplicates(dash_keys): the first row of each key is kept
RECURSIVE DropDuplicatesFrom(_, _)
DropDuplicatesFrom(rows, i) ==
  IF i > Len(rows) THEN <<>>
  ELSE (IF \E j \in 1..(i - 1) : dash_keys(rows[j]) = dash_keys(rows[i])
        THEN <<>> ELSE <<rows[i]>>) \o DropDuplicatesFrom(rows, i + 1)

DropDuplicates(rows) == DropDuplicatesFrom(rows, 1)

\* mutant: the duplicates are kept
DashMinSemDedup(rows) == DropNaKeys(rows)

DashMin(rows) == DropDuplicates(DropNaKeys(rows))

WithDash(r, abertura, mercado) ==
  [ Data_Operacao |-> r.Data_Operacao, Conta_Cliente |-> r.Conta_Cliente,
    Ativo |-> r.Ativo, Fixing |-> r.Fixing, Fixing_norm |-> r.Fixing_norm,
    Estrutura |-> r.Estrutura, Ref |-> r.Ref, Cod_Produto |-> r.Cod_Produto,
    Preco_Exercicio |-> r.Preco_Exercicio, Quantidade |-> r.Quantidade,
    Rebate |-> r.Rebate, Paga_Recebe |-> r.Paga_Recebe,
    Nome_Cliente |-> r.Nome_Cliente, Assessor |-> r.Assessor,
    Preco_Abertura |-> abertura, Preco_Mercado |-> mercado ]

MergeDashRow(r, dash) ==
  LET match(d) == /\ KeyEq(r.Conta_Cliente, d.Conta)
                  /\ KeyEq(r.Ativo, d.Ativo)
                  /\ KeyEq(r.Fixing_norm, d.Fixing_norm)
      ms == SelectSeq(dash, match)
  IN IF ms = <<>> THEN <<WithDash(r, Null, Null)>>
     ELSE [i \in 1..Len(ms) |->
             WithDash(r, ms[i].Preco_Abertura, ms[i].Preco_Mercado)]

RECURSIVE MergeDashFrom(_, _, _)
MergeDashFrom(left, dash, i) ==
  IF i > Len(left) THEN <<>>
  ELSE MergeDashRow(left[i], dash) \o MergeDashFrom(left, dash, i + 1)

\* df_merged.merge(df_dash_min, left_on=[...], right_on=[...], how="left")
MergeDash(left, dash) == MergeDashFrom(left, dash, 1)

-----------------------------------------------------------------------------
(* processar_dados: the "saindo hoje" metrics (lines 249-269) *)

\* + - * of two cells: a null operand gives null
NAdd(a, b) == IF IsNull(a) \/ IsNull(b) THEN Null ELSE NumAdd(a, b)
NSub(a, b) == IF IsNull(a) \/ IsNull(b) THEN Null ELSE NumSub(a, b)
NMul(a, b) == IF IsNull(a) \/ IsNull(b) THEN Null ELSE NumMul(a, b)

ZeroDivisionErrorValue == [t |-> "ZeroDivisionError"]

\* a / b.  With float64 columns numpy divides: x/0 is +inf or -inf and 0/0 is
\* NaN.  With an object column (one that holds pd.NA) the division is
\* Python's, element by element: float / 0.0 raises ZeroDivisionError, while
\* pd.NA / 0.0 is pd.NA.
TrueDiv(a, b, objeto) ==
  IF IsNull(b) THEN Null
  ELSE IF b.n = 0
    THEN IF IsNull(a) THEN Null
         ELSE IF objeto THEN ZeroDivisionErrorValue
         ELSE IF a.n > 0 THEN Inf(1)
         ELSE IF a.n < 0 THEN Inf(-1)
         ELSE Null
  ELSE IF IsNull(a) THEN Null
  ELSE Num(a.n * b.d, a.d * b.n)

\* (q - 1) * 100 for a quotient q: an infinity stays one, an error stays one
MinusOneTimes100(q) ==
  IF IsNum(q) THEN NumMul(NumSub(q, Int2Num(1)), Int2Num(100)) ELSE q

\* whether one of the columns of the division has dtype object: .apply gives
\* float64 when every br_to_float result is a float, object when one is pd.NA
ObjectDtype(merged, dash) ==
  \/ \E i \in 1..Len(merged) :
       IsNull(merged[i].Quantidade) \/ IsNull(merged[i].Paga_Recebe)
  \/ \E j \in 1..Len(dash) :
       IsNull(dash[j].Preco_Abertura) \/ IsNull(dash[j].Preco_Mercado)

\* mutant: x <= 0 instead of x < 0
ClassificarMenorIgual(x) ==
  IF pd_notnull(x) /\ ~NumLess(Int2Num(0), x) THEN "PAGA"
  ELSE IF pd_notnull(x) /\ NumLess(Int2Num(0), x) THEN "RECEBE"
  ELSE "NEUTRO"

\* lambda x: "PAGA" if notnull(x) and x < 0 else ("RECEBE" if ... else "NEUTRO")
Classificar(x) ==
  IF pd_notnull(x) /\ NumLess(x, Int2Num(0)) THEN "PAGA"
  ELSE IF pd_notnull(x) /\ NumLess(Int2Num(0), x) THEN "RECEBE"
  ELSE "NEUTRO"

CalcRow(r, objeto) ==
  LET previo == NMul(NSub(r.Preco_Mercado, r.Preco_Abertura), r.Quantidade)
      bid == NMul(r.Paga_Recebe, r.Quantidade)
      saindo == NAdd(previo, bid)
      base == NMul(r.Quantidade, r.Preco_Abertura)
      pct == MinusOneTimes100(TrueDiv(NAdd(base, saindo), base, objeto))
  IN [ Data_Operacao |-> r.Data_Operacao, Conta_Cliente |-> r.Conta_Cliente,
       Assessor |-> r.Assessor, Nome_Cliente |-> r.Nome_Cliente,
       Ativo |-> r.Ativo, Preco_Exercicio |-> r.Preco_Exercicio,
       Quantidade |-> r.Quantidade, Fixing |-> r.Fixing,
       Estrutura |-> r.Estrutura, Ref |-> r.Ref,
       Paga_Recebe |-> r.Paga_Recebe,
       Cliente_Paga_Recebe |-> Classificar(r.Paga_Recebe),
       Preco_Abertura |-> r.Preco_Abertura, Preco_Mercado |-> r.Preco_Mercado,
       Resultado_Previo |-> previo, Bid_Total |-> bid,
       Resultado_Saindo_Hoje |-> saindo, Base_Abertura |-> base,
       Pct_Saindo_Hoje |-> pct, Cod_Produto |-> r.Cod_Produto ]

-----------------------------------------------------------------------------
(* processar_dados: formatting and the returned table (lines 271-309) *)

RECURSIVE IntDigits(_)
IntDigits(n) ==
  IF n < 10 THEN <<DigitChar(n)>>
  ELSE IntDigits(n \div 10) \o <<DigitChar(n % 10)>>

\* the digits of an integer part with "," between groups of three
RECURSIVE Grouped(_)
Grouped(ds) ==
  IF Len(ds) <= 3 THEN ds
  ELSE Grouped(SubSeq(ds, 1, Len(ds) - 3)) \o <<",">>
         \o SubSeq(ds, Len(ds) - 2, Len(ds))

\* |x| in hundredths, rounded half to even
Hundredths(x) ==
  LET m == Abs(x.n) * 100
      q == m \div x.d
      r == m % x.d
  IN IF 2 * r > x.d \/ (2 * r = x.d /\ q % 2 = 1) THEN q + 1 ELSE q

\* f"{x:.2f}" (grouping FALSE) and f"{x:,.2f}" (grouping TRUE)
Format2f(x, grouping) ==
  IF x.t = "inf"
  THEN (IF x.sign < 0 THEN <<"-">> ELSE <<>>) \o <<"i", "n", "f">>
  ELSE LET h == Hundredths(x)
           ip == IntDigits(h \div 100)
       IN (IF x.n < 0 THEN <<"-">> ELSE <<>>)
            \o (IF grouping THEN Grouped(ip) ELSE ip)
            \o <<".", DigitChar((h % 100) \div 10), DigitChar(h % 10)>>

fmt_rs(x) ==
  IF pd_notnull(x)
  THEN Str(Replace(Replace(Replace(<<"R", "$", " ">> \o Format2f(x, TRUE),
                                   ",", <<"X">>), ".", <<",">>), "X", <<".">>))
  ELSE Str(<<>>)

fmt_pct(x) ==
  IF pd_notnull(x)
  THEN Str(Replace(Format2f(x, FALSE) \o <<"%">>, ".", <<",">>))
  ELSE Str(<<>>)

\* the four columns overwritten with their formatted text
FormatRow(r) ==
  [r EXCEPT !.Resultado_Previo = fmt_rs(@), !.Bid_Total = fmt_rs(@),
            !.Resultado_Saindo_Hoje = fmt_rs(@),
            !.Pct_Saindo_Hoje = fmt_pct(@)]

\* the selection df_merged[colunas_saida]
SaidaRow(r) ==
  [ Data_Operacao |-> r.Data_Operacao, Conta_Cliente |-> r.Conta_Cliente,
    Assessor |-> r.Assessor, Nome_Cliente |-> r.Nome_Cliente,
    Ativo |-> r.Ativo, Preco_Exercicio |-> r.Preco_Exercicio,
    Quantidade |-> r.Quantidade, Fixing |-> r.Fixing,
    Estrutura |-> r.Estrutura, Ref |-> r.Ref, Paga_Recebe |-> r.Paga_Recebe,
    Cliente_Paga_Recebe |-> r.Cliente_Paga_Recebe,
    Preco_Abertura |-> r.Preco_Abertura, Preco_Mercado |-> r.Preco_Mercado,
    Resultado_Previo |-> r.Resultado_Previo, Bid_Total |-> r.Bid_Total,
    Resultado_Saindo_Hoje |-> r.Resultado_Saindo_Hoje,
    Pct_Saindo_Hoje |-> r.Pct_Saindo_Hoje,
    Cod_Produto |-> r.Cod_Produto ]

-----------------------------------------------------------------------------
(* processar_dados: the steps *)

Raise(e) ==
  /\ pc' = "failed"
  /\ erro' = e

\* lines 127-163
Validar ==
  /\ UNCHANGED <<coerceVars, uiVars>>
  /\ pc = "start"
  /\ LET e == ValidationError(df_assessores, df_ops, df_dash)
     IN IF e # NoError THEN Raise(e)
        ELSE pc' = "validated" /\ UNCHANGED erro
  /\ UNCHANGED <<df_assessores, df_ops, df_dash, df_grouped, df_merged,
                 df_dash_min, resultado>>

\* lines 165-197
Agrupar ==
  /\ UNCHANGED <<coerceVars, uiVars>>
  /\ pc = "validated"
  /\ LET g == GroupAgg(df_ops.rows)
     IN IF \E i \in 1..Len(g) : g[i].Bid_Offer.t = "TypeError"
        THEN Raise([type |-> "TypeError"]) /\ UNCHANGED df_grouped
        ELSE pc' = "grouped" /\ df_grouped' = g /\ UNCHANGED erro
  /\ UNCHANGED <<df_assessores, df_ops, df_dash, df_merged, df_dash_min,
                 resultado>>

\* lines 199-212
CruzarAssessores ==
  /\ UNCHANGED <<coerceVars, uiVars>>
  /\ pc = "grouped"
  /\ pc' = "merged"
  /\ df_merged' = MergeAssessores(df_grouped, df_assessores.rows)
  /\ UNCHANGED <<df_assessores, df_ops, df_dash, df_grouped, df_dash_min,
                 resultado, erro>>

\* lines 214-232
Normalizar ==
  /\ UNCHANGED <<coerceVars, uiVars>>
  /\ pc = "merged"
  /\ pc' = "normalized"
  /\ df_merged' = MapRows(df_merged, NormOpsRow)
  /\ df_dash' = [df_dash EXCEPT !.rows = MapRows(df_dash.rows, NormDashRow)]
  /\ UNCHANGED <<df_assessores, df_ops, df_grouped, df_dash_min, resultado,
                 erro>>

\* lines 234-247
CruzarDash ==
  /\ UNCHANGED <<coerceVars, uiVars>>
  /\ pc = "normalized"
  /\ pc' = "enriched"
  /\ df_dash_min' = DashMin(df_dash.rows)
  /\ df_merged' = MergeDash(df_merged, DashMin(df_dash.rows))
  /\ UNCHANGED <<df_assessores, df_ops, df_dash, df_grouped, resultado, erro>>

\* lines 249-269
Calcular ==
  /\ UNCHANGED <<coerceVars, uiVars>>
  /\ pc = "enriched"
  /\ LET objeto == ObjectDtype(df_merged, df_dash.rows)
         calc(r) == CalcRow(r, objeto)
         rows == MapRows(df_merged, calc)
     IN IF \E i \in 1..Len(rows) : rows[i].Pct_Saindo_Hoje.t = "ZeroDivisionError"
        THEN Raise([type |-> "ZeroDivisionError"]) /\ UNCHANGED df_merged
        ELSE pc' = "calculated" /\ df_merged' = rows /\ UNCHANGED erro
  /\ UNCHANGED <<df_assessores, df_ops, df_dash, df_grouped, df_dash_min,
                 resultado>>

\* lines 271-309
Formatar ==
  /\ UNCHANGED <<coerceVars, uiVars>>
  /\ pc = "calculated"
  /\ pc' = "done"
  /\ df_merged' = MapRows(df_merged, FormatRow)
  /\ resultado' = Table(MapRows(MapRows(df_merged, FormatRow), SaidaRow))
  /\ UNCHANGED <<df_assessores, df_ops, df_dash, df_grouped, df_dash_min,
                 erro>>

-----------------------------------------------------------------------------
(* The inputs of processar_dados *)

Rows(S, n) == UNION {[1..k -> S] : k \in 0..n}

X3 == Str(<<"X", "3">>)
x3 == Str(<<" ", "x", "3">>)

OpsRow(conta, ativo, fixing, qtd, bid) ==
  [ Data_Operacao |-> Ts(10, 0), Conta_Cliente |-> conta, Ativo |-> ativo,
    Fixing |-> fixing, Estrutura |-> Str(<<"X">>), Ref |-> Int2Num(10),
    Codigo_do_Produto |-> Str(<<"B">>), Preco_Exercicio |-> Int2Num(12),
    Quantidade |-> qtd, Rebate |-> Null, Bid_Offer |-> bid ]

AssRow(conta, nome, assessor) ==
  [Conta |-> conta, Nome |-> nome, Assessor |-> assessor]

DashRow(conta, ativo, fixing, abertura, mercado) ==
  [ Conta |-> conta, Ativo |-> ativo, Data_de_Fixing |-> fixing,
    Preco_de_Abertura |-> abertura, Preco_de_Mercado |-> mercado ]

OpsBase == <<OpsRow(Int2Num(100), X3, Ts(15, 0), Int2Num(100), Int2Num(2))>>
AssBase == <<AssRow(Int2Num(100), Str(<<"a">>), Str(<<"A">>))>>
DashBase == <<DashRow(Int2Num(100), x3, Ts(15, 7), Int2Num(10), Int2Num(11))>>

\* the keys vary: accounts (null too) and assets
OpsRowsAgg ==
  { OpsRow(c, a, Ts(15, 0), Int2Num(100), Int2Num(2)) :
      c \in {Int2Num(100), Int2Num(200), Null}, a \in {X3, x3} }

\* accounts vary
OpsRowsJoin ==
  { OpsRow(c, X3, Ts(15, 0), Int2Num(100), Int2Num(2)) :
      c \in {Int2Num(100), Null} }

AssRowsJoin ==
  { AssRow(c, n[1], n[2]) :
      c \in {Int2Num(100), Int2Num(200)},
      n \in {<<Str(<<"a">>), Str(<<"A">>)>>, <<Str(<<"b">>), Str(<<"B">>)>>} }

DashRowsJoin ==
  { DashRow(c, x3, f, p, NumAdd(p, Int2Num(1))) :
      c \in {Int2Num(100), Str(<<"1", "0", "0">>)},
      f \in {Ts(15, 7), Str(<<"a", "b">>)},
      p \in {Int2Num(10), Int2Num(20)} }

\* the legs of one operation: quantities and bid/offer values vary, texts too
OpsRowsCalc ==
  { OpsRow(Int2Num(100), X3, Ts(15, 0), q, b) :
      q \in {Null, Int2Num(0), Int2Num(100)},
      b \in {Null, Int2Num(2), Num(-1, 2), Str(<<"2", ",", "5">>),
             Str(<<"a", "b">>)} }

DashRowsCalc ==
  { DashRow(Int2Num(100), x3, Ts(15, 7), p, m) :
      p \in {Int2Num(0), Int2Num(10), Str(<<"1", ",", "5">>), Null},
      m \in {Int2Num(11), Null} }

Missing(req) == {m \in SUBSET req : Cardinality(m) <= MaxMissing}

FullCols(req) == req \cup {"Obs"}

InputTable(cols, rows) == [cols |-> cols, rows |-> rows]

PipelineStart ==
  /\ pc = "start"
  /\ df_grouped = <<>>
  /\ df_merged = <<>>
  /\ df_dash_min = <<>>
  /\ resultado = NoTable
  /\ erro = NoError

FullInputs(opsRows, assRows, dashRows) ==
  /\ df_ops \in {InputTable(FullCols(cols_ops_obrig), r) : r \in opsRows}
  /\ df_assessores \in
       {InputTable(FullCols(cols_assessores_obrig), r) : r \in assRows}
  /\ df_dash \in {InputTable(FullCols(cols_dash_obrig), r) : r \in dashRows}

InitAgg == FullInputs(Rows(OpsRowsAgg, MaxOps), {AssBase}, {DashBase})

InitJoinAss ==
  FullInputs(Rows(OpsRowsJoin, MaxLegs), Rows(AssRowsJoin, MaxAdv), {DashBase})

InitJoinDash ==
  FullInputs(Rows(OpsRowsJoin, MaxLegs), {AssBase}, Rows(DashRowsJoin, MaxDash))

\* a Dashboard row of another account without prices
DashSemPreco == DashRow(Int2Num(200), x3, Ts(15, 7), Null, Null)

InitCalc ==
  FullInputs(Rows(OpsRowsCalc, MaxLegs), {AssBase},
             {<<d>> : d \in DashRowsCalc}
               \cup {<<d, DashSemPreco>> : d \in DashRowsCalc})

InitSchema ==
  /\ df_ops \in {InputTable(FullCols(cols_ops_obrig) \ m, OpsBase) :
                   m \in Missing(cols_ops_obrig)}
  /\ df_assessores \in
       {InputTable(FullCols(cols_assessores_obrig) \ m, AssBase) :
          m \in Missing(cols_assessores_obrig)}
  /\ df_dash \in {InputTable(FullCols(cols_dash_obrig) \ m, DashBase) :
                    m \in Missing(cols_dash_obrig)}

PipelineIdle ==
  /\ pc = "idle"
  /\ df_ops = InputTable({}, <<>>)
  /\ df_assessores = InputTable({}, <<>>)
  /\ df_dash = InputTable({}, <<>>)
  /\ df_grouped = <<>>
  /\ df_merged = <<>>
  /\ df_dash_min = <<>>
  /\ resultado = NoTable
  /\ erro = NoError

-----------------------------------------------------------------------------
(* The handler of the "Processar" button (lines 337-386) *)

Widgets == {"file_assessores", "file_ops", "file_dash"}

\* the names bound at module level when line 350 runs; the third uploader
\* (key "file_dash") is assigned to file_abertura
Globals ==
  { "st", "pd", "BytesIO", "np", "yf", "carregar_arquivo", "primeira_nao_nula",
    "get_preco_mercado_yf", "br_to_float", "processar_dados",
    "gerar_excel_para_download", "col1", "col2", "col3", "file_assessores",
    "file_ops", "file_abertura" }

\* the parameters of processar_dados (none has a default)
processar_dados_params == <<"df_assessores", "df_ops", "df_dash">>

\* the arguments of the call at line 369
segunda_chamada_args == <<"df_assessores", "df_ops">>

\* carregar_arquivo: None for a file that cannot be read
carregar_arquivo(f) == IF f = "ok" THEN "df" ELSE "None"

\* one run of the script with the button pressed: what it ends showing
ProcessarHandler(up, ok) ==
  IF up["file_assessores"] = "none" \/ up["file_ops"] = "none"
  THEN "warning"
  ELSE IF "file_dash" \notin Globals THEN "NameError"
  ELSE IF up["file_dash"] = "none" THEN "warning"
  ELSE IF \E w \in Widgets : carregar_arquivo(up[w]) = "None"
  THEN "erro_leitura"
  ELSE IF ~ok THEN "erro_processar"
  ELSE IF Len(segunda_chamada_args) # Len(processar_dados_params)
  THEN "erro_processar"
  ELSE "sucesso"

InitUI ==
  /\ uploads = [w \in Widgets |-> "none"]
  /\ pipeline_ok \in BOOLEAN
  /\ tela = "inicio"

UIIdle ==
  /\ uploads = [w \in Widgets |-> "none"]
  /\ pipeline_ok = FALSE
  /\ tela = "idle"

\* the user puts a file into (or takes it out of) an uploader: the script
\* reruns with the button not pressed
Upload ==
  /\ UNCHANGED <<pipeVars, coerceVars>>
  /\ \E w \in Widgets, f \in {"none", "ok", "bad"} :
       /\ uploads[w] # f
       /\ uploads' = [uploads EXCEPT ![w] = f]
  /\ pipeline_ok' \in BOOLEAN
  /\ tela' = "inicio"

\* the user presses the button
Processar ==
  /\ UNCHANGED <<pipeVars, coerceVars>>
  /\ tela' = ProcessarHandler(uploads, pipeline_ok)
  /\ tela' # tela
  /\ UNCHANGED <<uploads, pipeline_ok>>

-----------------------------------------------------------------------------
(* Specifications *)

Init ==
  /\ PipelineStart
  /\ InitAgg \/ InitJoinAss \/ InitJoinDash \/ InitCalc \/ InitSchema
  /\ CoerceIdle
  /\ UIIdle

Next ==
  \/ Validar
  \/ Agrupar
  \/ CruzarAssessores
  \/ Normalizar
  \/ CruzarDash
  \/ Calcular
  \/ Formatar

Spec == Init /\ [][Next]_vars

InitC == PipelineIdle /\ InitCoerce /\ UIIdle

NextC == Coerce

SpecCoerce == InitC /\ [][NextC]_vars

InitH == PipelineIdle /\ CoerceIdle /\ InitUI

NextH == Upload \/ Processar

SpecUI == InitH /\ [][NextH]_vars

-----------------------------------------------------------------------------
(* Properties *)

AfterGrouping ==
  {"grouped", "merged", "normalized", "enriched", "calculated", "done"}
AfterMerge == {"merged", "normalized", "enriched", "calculated", "done"}
AfterDash == {"enriched", "calculated", "done"}

MissingOf(tabela) ==
  CASE tabela = "assessores" -> cols_assessores_obrig \ df_assessores.cols
    [] tabela = "ops" -> cols_ops_obrig \ df_ops.cols
    [] tabela = "dash" -> cols_dash_obrig \ df_dash.cols

AnyMissing ==
  \E tabela \in {"assessores", "ops", "dash"} : MissingOf(tabela) # {}

\* C1: whenever a table lacks a required column, processar_dados ends with a
\* schema error that names a table and exactly the required columns that
\* table lacks, nothing was aggregated, joined or computed, and no table is
\* returned.
C1_SchemaErrorBeforeAnyWork ==
  (AnyMissing /\ pc # "start") =>
    /\ pc = "failed"
    /\ erro.type = "ValueError"
    /\ erro.faltando # {}
    /\ erro.faltando = MissingOf(erro.tabela)
    /\ df_grouped = <<>>
    /\ df_merged = <<>>
    /\ df_dash_min = <<>>
    /\ resultado = NoTable

\* two tables lack a column; the error names the first of them
C1_Witness ==
  /\ pc = "failed"
  /\ erro.type = "ValueError"
  /\ erro.tabela = "ops"
  /\ MissingOf("dash") # {}

ClaimKey(r) ==
  <<r.Data_Operacao, r.Conta_Cliente, r.Ativo, r.Fixing, r.Estrutura, r.Ref,
    r.Codigo_do_Produto>>

DistinctKeys == {ClaimKey(df_ops.rows[i]) : i \in 1..Len(df_ops.rows)}

\* C2: once the operations are aggregated there is exactly one unified row
\* for each distinct grouping key of the Operations table, a key holding a
\* null included, and no other row.
C2_OneRowPerKey ==
  pc \in AfterGrouping =>
    /\ Len(df_grouped) = Cardinality(DistinctKeys)
    /\ \A k \in DistinctKeys :
         Cardinality({i \in 1..Len(df_grouped) : ClaimKey(df_grouped[i]) = k}) = 1

\* two legs share a key whose account is null, beside another key
C2_Witness ==
  /\ pc = "grouped"
  /\ Len(df_grouped) = 2
  /\ \E i, j \in 1..Len(df_ops.rows) :
       /\ i < j
       /\ ClaimKey(df_ops.rows[i]) = ClaimKey(df_ops.rows[j])
       /\ IsNull(df_ops.rows[i].Conta_Cliente)
  /\ \E g \in 1..2 : IsNull(df_grouped[g].Conta_Cliente)

AdvisorMatches(conta) ==
  {i \in 1..Len(df_assessores.rows) : df_assessores.rows[i].Conta = conta}

FirstAdvisor(conta) ==
  CHOOSE i \in AdvisorMatches(conta) : \A j \in AdvisorMatches(conta) : i <= j

\* C3: after the join with the Advisors table every unified operation appears
\* exactly once: the rows are as many as the unified operations, and each
\* carries the Assessor and Nome Cliente of the first advisor record of its
\* account, or nulls when there is none.
C3_OneRowPerOperation ==
  pc \in AfterMerge =>
    /\ Len(df_merged) = Len(df_grouped)
    /\ \A i \in 1..Len(df_merged) :
         LET conta == df_grouped[i].Conta_Cliente
         IN IF AdvisorMatches(conta) = {}
            THEN IsNull(df_merged[i].Assessor) /\ IsNull(df_merged[i].Nome_Cliente)
            ELSE /\ df_merged[i].Assessor =
                      df_assessores.rows[FirstAdvisor(conta)].Assessor
                 /\ df_merged[i].Nome_Cliente =
                      df_assessores.rows[FirstAdvisor(conta)].Nome

DashKey(r) == <<r.Conta, r.Ativo, r.Fixing_norm>>
OpDashKey(r) == <<r.Conta_Cliente, r.Ativo, r.Fixing_norm>>

\* C4: the step that joins the Dashboard leaves the number of operation rows
\* unchanged; the Dashboard it joins holds one record per key, the first of
\* the (normalised) Dashboard with that key, so that an operation row matches
\* at most one record.
C4_DashJoinKeepsRowCount ==
  [][(pc = "normalized" /\ pc' = "enriched") =>
       /\ Len(df_merged') = Len(df_merged)
       /\ \A i, j \in 1..Len(df_dash_min') :
            i # j => DashKey(df_dash_min'[i]) # DashKey(df_dash_min'[j])
       /\ \A m \in 1..Len(df_dash_min') :
            \E j \in 1..Len(df_dash.rows) :
              /\ df_dash.rows[j] = df_dash_min'[m]
              /\ \A l \in 1..(j - 1) :
                   DashKey(df_dash.rows[l]) # DashKey(df_dash.rows[j])
       /\ \A i \in 1..Len(df_merged) :
            Cardinality({m \in 1..Len(df_dash_min') :
                           DashKey(df_dash_min'[m]) = OpDashKey(df_merged[i])}) <= 1
    ]_vars

\* two Dashboard records with one key and different prices: the operation is
\* joined with the first
C4_Witness ==
  /\ pc = "enriched"
  /\ Len(df_dash.rows) = 2
  /\ DashKey(df_dash.rows[1]) = DashKey(df_dash.rows[2])
  /\ df_dash.rows[1].Preco_Abertura # df_dash.rows[2].Preco_Abertura
  /\ Len(df_dash_min) = 1
  /\ \E i \in 1..Len(df_merged) :
       df_merged[i].Preco_Abertura = df_dash.rows[1].Preco_Abertura

FirstIdx(k) ==
  CHOOSE i \in 1..Len(df_ops.rows) :
    /\ ClaimKey(df_ops.rows[i]) = k
    /\ \A j \in 1..(i - 1) : ClaimKey(df_ops.rows[j]) # k

\* the key columns of a unified row as the result table shows them
ShownKey(g) ==
  <<g.Data_Operacao, to_numeric(g.Conta_Cliente), NormAtivo(g.Ativo), g.Fixing,
    g.Estrutura, br_to_float(g.Ref), g.Codigo_do_Produto>>

ResultKey(r) ==
  <<r.Data_Operacao, r.Conta_Cliente, r.Ativo, r.Fixing, r.Estrutura, r.Ref,
    r.Cod_Produto>>

\* res is grp with each element once or several times in a row
RECURSIVE RepeatsOf(_, _)
RepeatsOf(res, grp) ==
  IF grp = <<>> THEN res = <<>>
  ELSE /\ res # <<>>
       /\ Head(res) = Head(grp)
       /\ RepeatsOf(Tail(res), Tail(grp)) \/ RepeatsOf(Tail(res), grp)

ResultFollowsGrouped ==
  pc = "done" =>
    RepeatsOf([i \in 1..Len(resultado.rows) |-> ResultKey(resultado.rows[i])],
              [i \in 1..Len(df_grouped) |-> ShownKey(df_grouped[i])])

\* C5 as stated: the unified rows, and the rows of the result after them, are
\* in the order in which their keys first appear in the Operations table.
C5_OrderOfFirstAppearance ==
  /\ pc \in AfterGrouping =>
       \A i, j \in 1..Len(df_grouped) :
         i < j => FirstIdx(ClaimKey(df_grouped[i])) < FirstIdx(ClaimKey(df_grouped[j]))
  /\ ResultFollowsGrouped

\* C5 amended: the unified rows, and the rows of the result after them, are
\* in ascending order of the group key (the key columns compared one after
\* the other, a null after every value), whatever the order of the input.
C5_AscendingKeyOrder ==
  /\ pc \in AfterGrouping =>
       \A i, j \in 1..Len(df_grouped) :
         i < j => KeyLess(ClaimKey(df_grouped[i]), ClaimKey(df_grouped[j]))
  /\ ResultFollowsGrouped

\* the result of an input whose keys first appear in descending order
C5_Witness ==
  /\ pc = "done"
  /\ Len(resultado.rows) >= 2
  /\ \E i, j \in 1..Len(df_ops.rows) :
       /\ i < j
       /\ KeyLess(ClaimKey(df_ops.rows[j]), ClaimKey(df_ops.rows[i]))
       /\ \A l \in 1..(j - 1) :
            ClaimKey(df_ops.rows[l]) # ClaimKey(df_ops.rows[j])

\* the legs of the group of a unified row, in the order of the input
LegsOf(g) ==
  LET inGroup(r) == ClaimKey(r) = ClaimKey(g)
  IN SelectSeq(df_ops.rows, inGroup)

\* a bid/offer cell that is a number, a null or a text that writes a number
WritesNumber(v) == IsNum(v) \/ IsNull(v) \/ ~IsNull(br_to_float(v))

AllWriteNumbers(legs) ==
  \A i \in 1..Len(legs) : WritesNumber(legs[i].Bid_Offer)

\* the number a leg's bid/offer cell stands for: a null counts as 0, a text
\* as the number it writes
LegNumber(v) ==
  IF IsNum(v) THEN v
  ELSE IF IsNull(v) THEN Int2Num(0)
  ELSE br_to_float(v)

RECURSIVE ArithmeticSum(_)
ArithmeticSum(legs) ==
  IF legs = <<>> THEN Int2Num(0)
  ELSE NumAdd(LegNumber(Head(legs).Bid_Offer), ArithmeticSum(Tail(legs)))

\* C8: the bid/offer total of every unified operation whose legs all write
\* numbers, as aggregated and as Paga/Recebe after the coercion, is the
\* arithmetic sum of the bid/offer values of the legs of its group, a null
\* leg counting as 0.
C8_TotalIsArithmeticSum ==
  /\ pc \in AfterGrouping =>
       \A i \in 1..Len(df_grouped) :
         AllWriteNumbers(LegsOf(df_grouped[i])) =>
           br_to_float(df_grouped[i].Bid_Offer) = ArithmeticSum(LegsOf(df_grouped[i]))
  /\ pc \in {"normalized", "enriched", "calculated", "done"} =>
       \A i \in 1..Len(df_merged) :
         \E g \in 1..Len(df_grouped) :
           /\ ShownKey(df_grouped[g]) = ResultKey(df_merged[i])
           /\ AllWriteNumbers(LegsOf(df_grouped[g])) =>
                df_merged[i].Paga_Recebe = ArithmeticSum(LegsOf(df_grouped[g]))

Labels == {"PAGA", "RECEBE", "NEUTRO"}

ClassifiedRight(x, c) ==
  /\ c \in Labels
  /\ c = "PAGA" <=> (IsNum(x) /\ x.n < 0)
  /\ c = "RECEBE" <=> (IsNum(x) /\ x.n > 0)
  /\ c = "NEUTRO" <=> (IsNull(x) \/ (IsNum(x) /\ x.n = 0))

\* C7: every row that has been classified, in the working table and in the
\* result, is labelled PAGA exactly when its Paga/Recebe is below 0, RECEBE
\* exactly when it is above 0 and NEUTRO exactly when it is 0 or null.
C7_Classification ==
  /\ pc \in {"calculated", "done"} =>
       \A i \in 1..Len(df_merged) :
         ClassifiedRight(df_merged[i].Paga_Recebe, df_merged[i].Cliente_Paga_Recebe)
  /\ pc = "done" =>
       \A i \in 1..Len(resultado.rows) :
         ClassifiedRight(resultado.rows[i].Paga_Recebe,
                         resultado.rows[i].Cliente_Paga_Recebe)

\* a result row whose two legs of -1/2 net -1
C7_Witness ==
  /\ pc = "done"
  /\ \E i \in 1..Len(resultado.rows) :
       /\ resultado.rows[i].Cliente_Paga_Recebe = "PAGA"
       /\ resultado.rows[i].Paga_Recebe = Int2Num(-1)
  /\ Len(df_ops.rows) = 2

LastIndex(s, c) ==
  LET at == {i \in 1..Len(s) : s[i] = c}
  IN IF at = {} THEN 0 ELSE CHOOSE i \in at : \A j \in at : j <= i

\* the coercion the specification describes: of a comma and a period the
\* rightmost is the decimal point, a lone comma is the decimal point
RightmostSeparatorRule(s0) ==
  LET s == Strip(s0)
  IN IF Contains(s, ",") /\ Contains(s, ".")
     THEN IF LastIndex(s, ",") > LastIndex(s, ".")
          THEN ParseFloat(Replace(Replace(s, ".", <<>>), ",", <<".">>))
          ELSE ParseFloat(Replace(s, ",", <<>>))
     ELSE ParseFloat(Replace(s, ",", <<".">>))

CoercesAsSpecified(x, y) ==
  /\ IsNum(x) => y = x
  /\ IsStr(x) /\ Contains(x.s, ",") => y = RightmostSeparatorRule(x.s)
  /\ x = Str(<<"1", ".", "2", "3", "4", ",", "5", "6">>) => y = Num(123456, 100)
  /\ x = Str(<<"1", ",", "2", "3", "4", ".", "5", "6">>) => y = Num(123456, 100)
  /\ x = Str(<<"a", "b", "c">>) => y = Null

\* C9: br_to_float (either definition) returns a number unchanged, reads a
\* text with a comma and a period taking the rightmost of the two as the
\* decimal point, reads a lone comma as the decimal point, and gives null
\* for "abc".
C9_RightmostSeparatorDecides ==
  cpc = "returned" =>
    CoercesAsSpecified(cx, cout.local) /\ CoercesAsSpecified(cx, cout.global)

BaseOf(r) == r.Base_Abertura

\* ((base + saindo) / base - 1) * 100, null when an operand is null
PctOf(base, saindo) ==
  IF IsNull(saindo) THEN Null
  ELSE LET soma == NumAdd(base, saindo)
       IN NumMul(NumSub(Num(soma.n * base.d, soma.d * base.n), Int2Num(1)),
                 Int2Num(100))

\* C10: the metric never raises; computed on a base that is 0 or null it is
\* null, and rendered as the empty text; on another base it is
\* ((base + result-leaving-today) / base - 1) * 100.
C10_NullSafeOnZeroBase ==
  /\ erro.type # "ZeroDivisionError"
  /\ pc = "calculated" =>
       \A i \in 1..Len(df_merged) :
         LET r == df_merged[i]
         IN IF IsNull(BaseOf(r)) \/ BaseOf(r).n = 0
            THEN IsNull(r.Pct_Saindo_Hoje)
            ELSE r.Pct_Saindo_Hoje = PctOf(BaseOf(r), r.Resultado_Saindo_Hoje)
  /\ pc = "done" =>
       \A i \in 1..Len(df_merged) :
         (IsNull(BaseOf(df_merged[i])) \/ BaseOf(df_merged[i]).n = 0) =>
           /\ df_merged[i].Pct_Saindo_Hoje = Str(<<>>)
           /\ resultado.rows[i].Pct_Saindo_Hoje = Str(<<>>)

AllUploaded == \A w \in Widgets : uploads[w] # "none"
AllLoad == \A w \in Widgets : uploads[w] = "ok"

\* C6: a run of the handler with the three files uploaded, each loading, and
\* a pipeline that processes them ends showing the result; a run ends
\* otherwise only on a missing upload, a read error or a pipeline error.
C6_SuccessWhenAllGood ==
  tela \notin {"inicio", "idle"} =>
    /\ (AllUploaded /\ AllLoad /\ pipeline_ok) => tela = "sucesso"
    /\ tela # "sucesso" => (~AllUploaded \/ ~AllLoad \/ ~pipeline_ok)

====
